---- MODULE Spec2Model ----
(***************************************************************************)
(* Model of the Eliza desktop shell's server supervisor                    *)
(* (eliza/packages/app/src-tauri/src/lib.rs): project directory discovery, *)
(* command resolution, child-process spawn, readiness polling with         *)
(* backoff, and shutdown on window-close / final-exit.                     *)
(***************************************************************************)
EXTENDS Integers, Sequences, FiniteSets, TLC

VARIABLES
    env,            \* process environment: platform, variables, exe path, cwd
    fs,             \* filesystem snapshot: symlinks and nodes
    host,           \* lifecycle of the Tauri host (main thread)
    handle,         \* SERVER_PROCESS: 0 = None, k = Some(child k of procs)
    poisoned,       \* poison flag of the SERVER_PROCESS mutex
    procs,          \* every child created by cmd.spawn(), with its kill() calls
    probed0,        \* result of is_server_running() at setup: <<>> or <<bool>>
    located,        \* what find_project_directory did in this run
    command,        \* what find_elizaos_command did in this run
    spawned,        \* outcome of cmd.spawn(): "none", "ok", "err"
    closeHandler,   \* CloseRequested handler registered on the main window
    closes,         \* CloseRequested events delivered so far
    shutdowns,      \* calls of shutdown_server so far
    shut,           \* position of the main thread inside shutdown_server
    waiter,         \* the readiness thread running wait_for_server
    log             \* key lines written by log_to_file, in order

vars == <<env, fs, host, handle, poisoned, procs, probed0, located, command,
          spawned, closeHandler, closes, shutdowns, shut, waiter, log>>

(***************************************************************************)
(* Bounds of the model.                                                    *)
(***************************************************************************)
\* Filesystem snapshots hold at most this many existing nodes.
MaxExisting == 2
\* wait_for_server(n) is explored for n in 0..MaxRetries.
MaxRetries == 12
\* CloseRequested events delivered to the main window.
MaxCloseRequests == 2

(***************************************************************************)
(* Program constants.                                                      *)
(***************************************************************************)
ExeLevels == 15
CwdLevels == 10
ReadinessRetries == 10
BackoffCapExp == 3
\* Symlinks one canonicalize() call follows before it fails (ELOOP).
MaxSymlinks == 40

(***************************************************************************)
(* Option values: <<>> is None / Err, <<x>> is Some(x) / Ok(x).            *)
(***************************************************************************)
None == <<>>
Some(x) == <<x>>
IsSome(o) == Len(o) = 1

(***************************************************************************)
(* Paths are sequences of components; the first component of an absolute   *)
(* path is the root ("C:" on Windows, "/" elsewhere).                      *)
(***************************************************************************)
Root(platform) == IF platform = "windows" THEN "C:" ELSE "/"

Join(p, c) == Append(p, c)

\* PathBuf::from of a Windows-style literal: components on Windows, one
\* relative component on platforms where the backslash is no separator.
PathFrom(platform, comps, literal) ==
    IF platform = "windows" THEN comps ELSE <<literal>>

IsAbsolute(e, p) == Len(p) > 0 /\ p[1] = Root(e.platform)

\* Path::parent of an absolute path: None at the root.
Parent(p) == IF Len(p) <= 1 THEN None ELSE Some(SubSeq(p, 1, Len(p) - 1))

\* The verbatim form std::fs::canonicalize gives an absolute path on Windows.
Verbatim(platform, p) ==
    IF platform = "windows" /\ Len(p) > 0 /\ p[1] = "C:"
    THEN <<"\\\\?\\C:">> \o Tail(p)
    ELSE p

\* The plain absolute path a canonical path names.
Plain(platform, cp) ==
    IF platform = "windows" /\ Len(cp) > 0 /\ cp[1] = "\\\\?\\C:"
    THEN <<"C:">> \o Tail(cp)
    ELSE cp

(***************************************************************************)
(* Filesystem: fs.links maps a symlink's path to the path it resolves to;  *)
(* fs.nodes maps an existing real path to its node.  A node is             *)
(* [type, manifest, text]: type "dir" or "file"; manifest "none" (no       *)
(* package.json), "unreadable" (read_to_string fails) or "text"; text the  *)
(* set of the searched strings that occur in package.json.                 *)
(***************************************************************************)
NameSpaced == "\"name\": \"trading-brain\""
NameCompact == "\"name\":\"trading-brain\""
Mention == "trading-brain"

\* A path of the filesystem that exists without being a symlink: the root,
\* a node, a directory above a node or above a symlink, and the working
\* directory with the directories above it.
Exists(e, f, p) ==
    \/ Len(p) = 1
    \/ p \in DOMAIN f.nodes
    \/ \E q \in (DOMAIN f.nodes) \cup (DOMAIN f.links) :
          Len(q) > Len(p) /\ SubSeq(q, 1, Len(p)) = p
    \/ /\ IsSome(e.current_dir)
       /\ Len(e.current_dir[1]) >= Len(p)
       /\ SubSeq(e.current_dir[1], 1, Len(p)) = p

\* Whether more components may follow p: p is not a regular file.
IsDirectory(f, p) == p \notin DOMAIN f.nodes \/ f.nodes[p].type = "dir"

\* On Windows "." and ".." are removed from the path as written, before the
\* filesystem is asked.
RECURSIVE Normalize(_, _)
Normalize(done, rest) ==
    IF rest = <<>> THEN done
    ELSE IF Head(rest) = "." THEN Normalize(done, Tail(rest))
    ELSE IF Head(rest) = ".."
         THEN Normalize(IF Len(done) <= 1 THEN done
                        ELSE SubSeq(done, 1, Len(done) - 1), Tail(rest))
    ELSE Normalize(Append(done, Head(rest)), Tail(rest))

\* Resolution component by component: `done` is the real path reached, `rest`
\* the components still to walk.  A symlink in any component is replaced by
\* its target, ".." goes to the parent of the real path reached, a missing
\* component or a component under a regular file is an error, and so is a
\* symlink met when `fuel` symlinks have been followed already.
ResolveStep(e, f, done, rest, fuel) ==
    IF rest = <<>> THEN "end"
    ELSE IF Head(rest) = "." THEN "dot"
    ELSE IF Head(rest) = ".." THEN "dotdot"
    ELSE IF Append(done, Head(rest)) \in DOMAIN f.links
         THEN IF fuel = 0 THEN "too_many_links" ELSE "link"
    ELSE IF ~Exists(e, f, Append(done, Head(rest))) THEN "missing"
    ELSE IF Tail(rest) # <<>> /\ ~IsDirectory(f, Append(done, Head(rest)))
         THEN "not_a_directory"
    ELSE "enter"

RECURSIVE Resolve(_, _, _, _, _)
Resolve(e, f, done, rest, fuel) ==
    LET step == ResolveStep(e, f, done, rest, fuel)
    IN  CASE step = "end" -> Some(done)
          [] step = "dot" -> Resolve(e, f, done, Tail(rest), fuel)
          [] step = "dotdot" ->
                Resolve(e, f, IF Len(done) <= 1 THEN done
                              ELSE SubSeq(done, 1, Len(done) - 1),
                        Tail(rest), fuel)
          [] step = "link" ->
                Resolve(e, f, <<Head(f.links[Append(done, Head(rest))])>>,
                        Tail(f.links[Append(done, Head(rest))]) \o Tail(rest),
                        fuel - 1)
          [] step = "enter" ->
                Resolve(e, f, Append(done, Head(rest)), Tail(rest), fuel)
          [] step \in {"too_many_links", "missing", "not_a_directory"} -> None

\* path.canonicalize(): the empty path is an error, relative paths resolve
\* against the working directory, every component is resolved (symlinks
\* followed, "." and ".." removed), a missing path is an error.
Canonicalize(e, f, p) ==
    LET abs == IF p = <<>> THEN None
               ELSE IF IsAbsolute(e, p) THEN Some(p)
               ELSE IF IsSome(e.current_dir) THEN Some(e.current_dir[1] \o p)
               ELSE None
    IN  IF ~IsSome(abs) THEN None
        ELSE LET written == IF e.platform = "windows"
                            THEN Normalize(<<Head(abs[1])>>, Tail(abs[1]))
                            ELSE abs[1]
                 real == Resolve(e, f, <<Head(written)>>, Tail(written),
                                 MaxSymlinks)
             IN  IF IsSome(real) THEN Some(Verbatim(e.platform, real[1]))
                 ELSE None

Contains(contents, needle) == needle \in contents

validate_project_directory(e, f, path) ==
    LET real == Plain(e.platform, path)
    IN  IF ~(real \in DOMAIN f.nodes) \/ f.nodes[real].type # "dir" THEN FALSE
        ELSE IF f.nodes[real].manifest = "none" THEN FALSE
        ELSE IF f.nodes[real].manifest = "text"
             THEN \/ Contains(f.nodes[real].text, NameSpaced)
                  \/ Contains(f.nodes[real].text, NameCompact)
                  \/ Contains(f.nodes[real].text, Mention)
             ELSE FALSE

(***************************************************************************)
(* find_project_directory.  Every stage yields [dir, seen]: the path it    *)
(* returns (or None) and the candidates it canonicalized, in order.        *)
(***************************************************************************)
NotFound(seen) == [dir |-> None, seen |-> seen]

\* if let Ok(canonical_path) = p.canonicalize()
\*     { if validate_project_directory(&canonical_path) { return Some(..) } }
Try(e, f, p) ==
    LET c == Canonicalize(e, f, p)
    IN  IF IsSome(c) /\ validate_project_directory(e, f, c[1]) THEN c ELSE None

RECURSIVE ScanList(_, _, _, _)
ScanList(e, f, list, seen) ==
    IF list = <<>> THEN NotFound(seen)
    ELSE LET r == Try(e, f, Head(list))
         IN  IF IsSome(r) THEN [dir |-> r, seen |-> Append(seen, Head(list))]
             ELSE ScanList(e, f, Tail(list), Append(seen, Head(list)))

OverrideStage(e, f) ==
    IF IsSome(e.ELIZA_PROJECT_PATH)
    THEN ScanList(e, f, <<e.ELIZA_PROJECT_PATH[1]>>, <<>>)
    ELSE NotFound(<<>>)

common_locations(home) ==
    << home \o <<"Civ", "eliza", "trading-brain">>,
       home \o <<"Documents", "Civ", "eliza", "trading-brain">>,
       home \o <<"Desktop", "Civ", "eliza", "trading-brain">>,
       home \o <<"Projects", "Civ", "eliza", "trading-brain">>,
       home \o <<"eliza", "trading-brain">>,
       home \o <<"Civ", "trading-brain">> >>

HomeStage(e, f) ==
    IF IsSome(e.USERPROFILE)
    THEN ScanList(e, f, common_locations(e.USERPROFILE[1]), <<>>)
    ELSE NotFound(<<>>)

\* The two candidates of one level of the walk up from the executable.
ExeLevelCandidates_siblingFirst(current) ==
    << Join(current, "trading-brain"),
       Join(Join(current, "eliza"), "trading-brain") >>
ExeLevelCandidates(current) ==
    << Join(Join(current, "eliza"), "trading-brain"),
       Join(current, "trading-brain") >>

RECURSIVE ExeWalk(_, _, _, _, _)
ExeWalk(e, f, current, levels, seen) ==
    IF levels = 0 THEN NotFound(seen)
    ELSE LET r == ScanList(e, f, ExeLevelCandidates(current), seen)
         IN  IF IsSome(r.dir) THEN r
             ELSE IF IsSome(Parent(current))
                  THEN ExeWalk(e, f, Parent(current)[1], levels - 1, r.seen)
                  ELSE r

ExeStage(e, f) ==
    IF IsSome(e.current_exe) /\ IsSome(Parent(e.current_exe[1]))
    THEN ExeWalk(e, f, Parent(e.current_exe[1])[1], ExeLevels, <<>>)
    ELSE NotFound(<<>>)

CwdLevelCandidates(current) ==
    << Join(Join(current, "eliza"), "trading-brain") >>

RECURSIVE CwdWalk(_, _, _, _, _)
CwdWalk(e, f, current, levels, seen) ==
    IF levels = 0 THEN NotFound(seen)
    ELSE LET r == ScanList(e, f, CwdLevelCandidates(current), seen)
         IN  IF IsSome(r.dir) THEN r
             ELSE IF IsSome(Parent(current))
                  THEN CwdWalk(e, f, Parent(current)[1], levels - 1, r.seen)
                  ELSE r

CwdStage(e, f) ==
    IF IsSome(e.current_dir)
    THEN CwdWalk(e, f, e.current_dir[1], CwdLevels, <<>>)
    ELSE NotFound(<<>>)

fallback_paths(platform) ==
    << PathFrom(platform,
                <<"C:", "Users", "Top Cash Pawn", "Civ", "eliza", "trading-brain">>,
                "C:\\Users\\Top Cash Pawn\\Civ\\eliza\\trading-brain"),
       PathFrom(platform,
                <<"C:", "Users", "Top Cash Pawn", "Documents", "Civ", "eliza", "trading-brain">>,
                "C:\\Users\\Top Cash Pawn\\Documents\\Civ\\eliza\\trading-brain"),
       PathFrom(platform,
                <<"C:", "Users", "Top Cash Pawn", "Desktop", "Civ", "eliza", "trading-brain">>,
                "C:\\Users\\Top Cash Pawn\\Desktop\\Civ\\eliza\\trading-brain") >>

FallbackStage(e, f) == ScanList(e, f, fallback_paths(e.platform), <<>>)

Stages_homeFirst(e, f) ==
    << HomeStage(e, f), OverrideStage(e, f), ExeStage(e, f), CwdStage(e, f),
       FallbackStage(e, f) >>

\* The stages in the order the function runs them.
Stages(e, f) ==
    << OverrideStage(e, f), HomeStage(e, f), ExeStage(e, f), CwdStage(e, f),
       FallbackStage(e, f) >>

\* Run the stages in order; the first that returns a path ends the search.
RECURSIVE RunStages_allStages(_, _)
RunStages_allStages(stages, seen) ==
    IF stages = <<>> THEN NotFound(seen)
    ELSE LET r == Head(stages)
             rest == RunStages_allStages(Tail(stages), seen \o r.seen)
         IN  IF IsSome(r.dir) THEN [dir |-> r.dir, seen |-> rest.seen] ELSE rest

RECURSIVE RunStages(_, _)
RunStages(stages, seen) ==
    IF stages = <<>> THEN NotFound(seen)
    ELSE LET r == Head(stages)
         IN  IF IsSome(r.dir) THEN [dir |-> r.dir, seen |-> seen \o r.seen]
             ELSE RunStages(Tail(stages), seen \o r.seen)

find_project_directory(e, f) == RunStages(Stages(e, f), <<>>)

(***************************************************************************)
(* find_elizaos_command: the trial invocations made, in order, and the     *)
(* invocation chosen.  Each trial has an outcome: the OS could not start   *)
(* the process (output() is Err), or it ran and exited with some status.   *)
(***************************************************************************)
TrialOutcomes == {"not_started", "exit_zero", "exit_nonzero"}

\* Ok(_) => ...: output() is Ok as soon as the process ran; its exit status
\* is not looked at.
Started_withSuccess(outcome) == outcome = "exit_zero"
Started(outcome) == outcome # "not_started"

Trial(tool, outcome) == [tool |-> tool, outcome |-> outcome]

BunxForm(trials) ==
    [name |-> "bunx", args |-> <<"--bun", "elizaos">>, trials |-> trials]
DirectForm(trials) ==
    [name |-> "elizaos", args |-> <<>>, trials |-> trials]

find_elizaos_command(platform, bunxOutcome, elizaosOutcome) ==
    IF platform = "windows"
    THEN IF Started(bunxOutcome)
         THEN BunxForm(<<Trial("bunx", bunxOutcome)>>)
         ELSE DirectForm(<<Trial("bunx", bunxOutcome),
                           Trial("elizaos", elizaosOutcome)>>)
    ELSE DirectForm(<<Trial("elizaos", elizaosOutcome)>>)

NoCommand == [name |-> "", args |-> <<>>, trials |-> <<>>]

(***************************************************************************)
(* wait_for_server, run by the readiness thread.                           *)
(***************************************************************************)
RECURSIVE Pow2(_)
Pow2(k) == IF k = 0 THEN 1 ELSE 2 * Pow2(k - 1)

Min(a, b) == IF a < b THEN a ELSE b

\* Duration::from_secs(2_u64.pow(i.min(3)))
Delay_uncapped(i) == Pow2(i)
Delay(i) == Pow2(Min(i, BackoffCapExp))

\* for i in 0..max_retries
LoopContinues_inclusive(i, max_retries) == i <= max_retries
LoopContinues(i, max_retries) == i < max_retries

\* if is_server_running() { return true; }
ReturnsOnProbe_never(up) == FALSE
ReturnsOnProbe(up) == up

WaiterIdle ==
    [pc |-> "idle", max_retries |-> 0, i |-> 0, probes |-> <<>>,
     delays |-> <<>>, slept |-> 0, result |-> None]

WaiterStarted(n) == [WaiterIdle EXCEPT !.pc = "check", !.max_retries = n]

\* The thread is alive while the process is.
ThreadsRun == host # "terminated"

\* One pass of the loop head and the probe: is_server_running().
WaitCheck ==
    /\ ThreadsRun
    /\ waiter.pc = "check"
    /\ LoopContinues(waiter.i, waiter.max_retries)
    /\ \E up \in BOOLEAN :
         waiter' = [waiter EXCEPT
                      !.probes = Append(@, up),
                      !.pc = IF ReturnsOnProbe(up) THEN "log" ELSE "sleep",
                      !.result = IF ReturnsOnProbe(up) THEN Some(TRUE) ELSE @]
    /\ UNCHANGED <<env, fs, host, handle, poisoned, procs, probed0,
                   located, command, spawned, closeHandler, closes, shutdowns, shut,
                   log>>

\* thread::sleep(delay) after a failed probe, then the next iteration.
WaitSleep ==
    /\ ThreadsRun
    /\ waiter.pc = "sleep"
    /\ waiter' = [waiter EXCEPT
                    !.delays = Append(@, Delay(waiter.i)),
                    !.slept = @ + Delay(waiter.i),
                    !.i = @ + 1,
                    !.pc = "check"]
    /\ UNCHANGED <<env, fs, host, handle, poisoned, procs, probed0,
                   located, command, spawned, closeHandler, closes, shutdowns, shut,
                   log>>

\* The loop is exhausted: wait_for_server returns false.
WaitGiveUp ==
    /\ ThreadsRun
    /\ waiter.pc = "check"
    /\ ~LoopContinues(waiter.i, waiter.max_retries)
    /\ waiter' = [waiter EXCEPT !.pc = "log", !.result = Some(FALSE)]
    /\ UNCHANGED <<env, fs, host, handle, poisoned, procs, probed0,
                   located, command, spawned, closeHandler, closes, shutdowns, shut,
                   log>>

\* The thread closure touches no shared state but the log.
HandleAfterReadiness_restore(h, ps) == Len(ps)
HandleAfterReadiness(h, ps) == h

\* Neither branch of the closure spawns: the children are as they were.
ProcsAfterReadiness_respawn(ps, result) ==
    IF result = Some(TRUE) THEN ps ELSE Append(ps, [ps[Len(ps)] EXCEPT !.kills = 0])
ProcsAfterReadiness(ps, result) == ps

\* if wait_for_server(10) { "server is ready" } else { "Warning: ..." }
OutcomeLines_silentTimeout(result) ==
    IF result = Some(TRUE) THEN <<"server_ready">> ELSE <<>>
OutcomeLines(result) ==
    <<IF result = Some(TRUE) THEN "server_ready" ELSE "not_ready_warning">>

\* The closure of the readiness thread logs the outcome and ends.
ReadinessLog ==
    /\ ThreadsRun
    /\ waiter.pc = "log"
    /\ waiter' = [waiter EXCEPT !.pc = "done"]
    /\ log' = log \o OutcomeLines(waiter.result)
    /\ handle' = HandleAfterReadiness(handle, procs)
    /\ procs' = ProcsAfterReadiness(procs, waiter.result)
    /\ UNCHANGED <<env, fs, host, poisoned, probed0, located,
                   command, spawned, closeHandler, closes, shutdowns, shut>>

(***************************************************************************)
(* shutdown_server.  SERVER_PROCESS.lock() returns Err exactly when the    *)
(* mutex is poisoned, that is, after a thread panicked while holding the   *)
(* guard.  The readiness thread never locks, and a panic of the main       *)
(* thread ends the host, so from process start the flag stays FALSE; the   *)
(* Err arms are modelled for a mutex that is found poisoned.               *)
(***************************************************************************)
\* if let Some(ref mut child) = *guard { child.kill() }
KillsChild_never(h) == FALSE
KillsChild(h) == h # 0

\* *guard = None;
HandleAfterShutdown_kept(h) == h
HandleAfterShutdown(h) == 0

\* *guard = None stands after the if-let, whatever kill() returned.
ClearsHandle_onKillSuccess(killOk) == killOk
ClearsHandle(killOk) == TRUE

NotShuttingDown == [pc |-> "idle", by |-> "none", killOk |-> FALSE]

\* Entry of shutdown_server, called by the handler `by`: the banner line is
\* written before the lock is asked for.
shutdown_server(by) ==
    /\ shut = NotShuttingDown
    /\ shutdowns' = shutdowns + 1
    /\ log' = Append(log, "shutting_down")
    /\ shut' = [pc |-> "banner", by |-> by, killOk |-> FALSE]

\* shutdown_server returns to its handler; the Exit handler was the last.
Returns(by) ==
    /\ shut' = NotShuttingDown
    /\ host' = IF by = "exit" THEN "exit_handled" ELSE host

\* SERVER_PROCESS.lock(): on Err the failure is logged and the call ends;
\* on Ok a stored child gets kill(), and without one the handle is set to
\* None at once.
ShutdownLock ==
    /\ shut.pc = "banner"
    /\ IF poisoned
       THEN /\ log' = Append(log, "shutdown_lock_failed")
            /\ Returns(shut.by)
            /\ UNCHANGED <<handle, procs>>
       ELSE IF KillsChild(handle)
       THEN /\ \E killOk \in BOOLEAN :
                 shut' = [shut EXCEPT !.pc = "killed", !.killOk = killOk]
            /\ procs' = [procs EXCEPT ![handle].kills = @ + 1]
            /\ UNCHANGED <<handle, host, log>>
       ELSE /\ handle' = HandleAfterShutdown(handle)
            /\ Returns(shut.by)
            /\ UNCHANGED <<procs, log>>
    /\ UNCHANGED <<env, fs, poisoned, probed0, located, command, spawned,
                   closeHandler, closes, shutdowns, waiter>>

\* kill() has returned: its result is logged, the handle is set to None and
\* the guard is dropped.
ShutdownResult ==
    /\ shut.pc = "killed"
    /\ log' = Append(log, IF shut.killOk THEN "shut_down_ok" ELSE "kill_failed")
    /\ handle' = IF ClearsHandle(shut.killOk) THEN HandleAfterShutdown(handle)
                 ELSE handle
    /\ Returns(shut.by)
    /\ UNCHANGED <<env, fs, poisoned, procs, probed0, located, command,
                   spawned, closeHandler, closes, shutdowns, waiter>>

(***************************************************************************)
(* run: the setup closure and the event handlers.                          *)
(***************************************************************************)
\* Environment variables set on the child.
ChildEnv ==
    { <<"ELIZA_USE_LOCAL_SERVER", "true">>, <<"CI", "true">>,
      <<"NO_UPDATE_CHECK", "1">>, <<"ELIZA_TEST_MODE", "true">>,
      <<"ELIZA_CLI_TEST_MODE", "true">>,
      <<"ELIZA_SKIP_LOCAL_CLI_DELEGATION", "true">>,
      <<"npm_config_update_notifier", "false">>, <<"NO_COLOR", "true">> }

\* if !is_server_running() { ... spawn ... }
ShouldStart_always(reachable) == TRUE
ShouldStart(reachable) == ~reachable

\* Ok(child) => match SERVER_PROCESS.lock() { Ok(..) => *server_guard = Some(child)
\* if let Some(ref dir) = project_dir { cmd.current_dir(dir) }: the child's
\* working directory is the found directory, and is left unset without one.
WorkingDir_unset(project_dir) == None
WorkingDir(project_dir) == project_dir

StoresHandle_ignoringLock(spawnOk, lockOk) == spawnOk
StoresHandle_never(spawnOk, lockOk) == FALSE
StoresHandle(spawnOk, lockOk) == spawnOk /\ lockOk

\* thread::spawn(move || { wait_for_server(10) ... }) in the same arm
StartsReadiness_evenOnFailure(spawnOk, lockOk) == lockOk
StartsReadiness(spawnOk, lockOk) == spawnOk /\ lockOk

NotLocated == [ran |-> FALSE, dir |-> None, seen |-> <<>>]

\* The setup closure up to the end of the spawn match.  No other thread
\* exists before thread::spawn, the last statement that acts here, so these
\* statements are one step; from then on the readiness thread runs beside
\* the rest of the closure.
Setup ==
    /\ host = "start"
    /\ \E reachable, spawnOk \in BOOLEAN,
          bunxOutcome, elizaosOutcome \in TrialOutcomes :
         LET found == find_project_directory(env, fs)
             cmd == find_elizaos_command(env.platform, bunxOutcome,
                                         elizaosOutcome)
             is_dev == env.TAURI_DEV \/ env.debug_assertions
             child == [name |-> cmd.name,
                       args |-> cmd.args \o
                                <<"--no-emoji", IF is_dev THEN "dev" ELSE "start">>,
                       cwd |-> WorkingDir(found.dir),
                       envs |-> ChildEnv,
                       kills |-> 0]
             lockOk == ~poisoned
         IN  /\ probed0' = Some(reachable)
             /\ IF ShouldStart(reachable)
                THEN /\ located' = [ran |-> TRUE, dir |-> found.dir,
                                    seen |-> found.seen]
                     /\ command' = cmd
                     /\ spawned' = IF spawnOk THEN "ok" ELSE "err"
                     /\ procs' = IF spawnOk THEN Append(procs, child) ELSE procs
                     /\ handle' = IF StoresHandle(spawnOk, lockOk)
                                  THEN Len(procs) + 1 ELSE handle
                     /\ waiter' = IF StartsReadiness(spawnOk, lockOk)
                                  THEN WaiterStarted(ReadinessRetries) ELSE waiter
                     /\ log' = Append(log,
                                 IF ~spawnOk THEN "spawn_failed"
                                 ELSE IF lockOk THEN "process_started"
                                 ELSE "setup_lock_failed")
                ELSE /\ log' = Append(log, "already_running")
                     /\ UNCHANGED <<located, command, spawned, procs, handle,
                                    waiter>>
    /\ host' = "setup"
    /\ UNCHANGED <<env, fs, poisoned, closeHandler, closes, shutdowns, shut>>

\* The rest of the setup closure: the CloseRequested handler is registered
\* when the main window exists, and setup returns.  The readiness thread,
\* started before, may already have run.
SetupRegister ==
    /\ host = "setup"
    /\ \E mainWindow \in BOOLEAN : closeHandler' = mainWindow
    /\ log' = Append(log, "setup_complete")
    /\ host' = "running"
    /\ UNCHANGED <<env, fs, handle, poisoned, procs, probed0, located, command,
                   spawned, closes, shutdowns, shut, waiter>>

\* tauri::Builder::build fails: nothing is started.
BuildFail ==
    /\ host = "start"
    /\ host' = "build_failed"
    /\ log' = Append(log, "build_failed")
    /\ UNCHANGED <<env, fs, handle, poisoned, procs, probed0, located, command,
                   spawned, closeHandler, closes, shutdowns, shut, waiter>>

\* WindowEvent::CloseRequested on the main window: the handler enters
\* shutdown_server.
CloseRequested ==
    /\ host = "running"
    /\ closeHandler
    /\ closes < MaxCloseRequests
    /\ closes' = closes + 1
    /\ shutdown_server("close")
    /\ UNCHANGED <<env, fs, host, handle, poisoned, procs, probed0, located,
                   command, spawned, closeHandler, waiter>>

\* RunEvent::Exit, the final event of the host: the handler enters
\* shutdown_server.
ExitEvent ==
    /\ host = "running"
    /\ shutdown_server("exit")
    /\ UNCHANGED <<env, fs, host, handle, poisoned, procs, probed0, located,
                   command, spawned, closeHandler, closes, waiter>>

\* The process ends after the Exit event; its threads end with it.
ProcessExit ==
    /\ host = "exit_handled"
    /\ host' = "terminated"
    /\ UNCHANGED <<env, fs, handle, poisoned, procs, probed0, located, command,
                   spawned, closeHandler, closes, shutdowns, shut, waiter, log>>

\* find_project_directory called on its own.
Locate ==
    /\ host = "start"
    /\ ~located.ran
    /\ LET found == find_project_directory(env, fs)
       IN  located' = [ran |-> TRUE, dir |-> found.dir, seen |-> found.seen]
    /\ UNCHANGED <<env, fs, host, handle, poisoned, procs, probed0, command,
                   spawned, closeHandler, closes, shutdowns, shut, waiter, log>>

(***************************************************************************)
(* Environments and filesystem snapshots the model is run on.              *)
(***************************************************************************)
Platforms == {"windows", "unix"}

RECURSIVE Deep(_, _, _)
\* The directory n levels below the root, every level named `name`.
Deep(platform, name, n) ==
    IF n = 0 THEN <<Root(platform)>>
    ELSE Append(Deep(platform, name, n - 1), name)

HomeDir(platform) == <<Root(platform), "Users", "u">>
OverridePath(platform) == <<Root(platform), "work", "tb">>
LinkTarget(platform) == <<Root(platform), "real", "tb">>
\* The override path written with ".." components: it walks "tb" three
\* times.
OverrideDotDot(platform) ==
    <<Root(platform), "work", "tb", "..", "tb", "..", "tb">>
\* A target beside the override path, for a symlink walked more than once.
SiblingTarget(platform) == <<Root(platform), "work", "rt">>
\* The k-th symlink of a chain.
Hop(platform, k) == <<Root(platform), "hop" \o ToString(k)>>

\* A chain of n symlinks from `from` to `to`.
Chain(platform, from, to, n) ==
    [p \in {from} \cup {Hop(platform, k) : k \in 1..(n - 1)} |->
        IF p = from THEN (IF n = 1 THEN to ELSE Hop(platform, 1))
        ELSE LET k == CHOOSE j \in 1..(n - 1) : Hop(platform, j) = p
             IN  IF k = n - 1 THEN to ELSE Hop(platform, k + 1)]
\* An executable deeper than the walk reaches, and one close to the root.
ExeDeep(platform) == Append(Deep(platform, "d", ExeLevels + 2), "eliza-desktop")
ExeShallow(platform) == <<Root(platform), "opt", "eliza-desktop">>
CwdDeep(platform) == Deep(platform, "w", CwdLevels + 1)

Nested(dir) == dir \o <<"eliza", "trading-brain">>

\* The paths a snapshot may hold a node at: those the candidates of the
\* environment can reach.
Universe(e) ==
    LET pl == e.platform
    IN  (IF e.ELIZA_PROJECT_PATH = Some(OverridePath(pl))
         THEN {OverridePath(pl), LinkTarget(pl)}
         ELSE IF e.ELIZA_PROJECT_PATH = Some(OverrideDotDot(pl))
         THEN {OverridePath(pl), SiblingTarget(pl)}
         ELSE {})
        \cup (IF IsSome(e.USERPROFILE)
              THEN {HomeDir(pl) \o <<"Civ", "eliza", "trading-brain">>,
                    HomeDir(pl) \o <<"Civ", "trading-brain">>}
              ELSE {})
        \cup (IF e.current_exe = Some(ExeDeep(pl))
              THEN {Append(Deep(pl, "d", ExeLevels + 2), "trading-brain"),
                    Nested(Deep(pl, "d", ExeLevels)),
                    Nested(Deep(pl, "d", 3)),
                    Nested(Deep(pl, "d", 2))}
              ELSE {})
        \cup (IF e.current_exe = Some(ExeShallow(pl))
              THEN {Nested(Deep(pl, "w", 0))} ELSE {})
        \cup (IF IsSome(e.current_dir)
              THEN {Nested(Deep(pl, "w", CwdLevels + 1)),
                    Nested(Deep(pl, "w", 1)),
                    CwdDeep(pl)}
              ELSE {})
        \cup (IF pl = "windows" THEN {fallback_paths(pl)[1]}
              ELSE IF IsSome(e.current_dir)
              THEN {CwdDeep(pl) \o fallback_paths(pl)[1]}
              ELSE {})

FileNode == [type |-> "file", manifest |-> "none", text |-> {}]
BareDir == [type |-> "dir", manifest |-> "none", text |-> {}]
UnreadableDir == [type |-> "dir", manifest |-> "unreadable", text |-> {}]
UnrelatedDir == [type |-> "dir", manifest |-> "text", text |-> {}]
MentionDir == [type |-> "dir", manifest |-> "text", text |-> {Mention}]
SpacedDir == [type |-> "dir", manifest |-> "text", text |-> {NameSpaced, Mention}]
ProjectNode == [type |-> "dir", manifest |-> "text", text |-> {NameCompact, Mention}]

\* A snapshot draws its nodes from one pair of kinds.
Flavours ==
    { {FileNode, MentionDir}, {BareDir, SpacedDir},
      {UnreadableDir, ProjectNode}, {UnrelatedDir, MentionDir} }

NoLinks == [p \in {} |-> p]

\* No node lies under a regular file.
WellFormed(nodes) ==
    \A p, q \in DOMAIN nodes :
        (Len(p) < Len(q) /\ SubSeq(q, 1, Len(p)) = p) => nodes[p].type = "dir"

Snapshots(e) ==
    { nodes \in UNION { UNION { [S -> kinds] : kinds \in Flavours } :
                        S \in { T \in SUBSET Universe(e) :
                                  Cardinality(T) <= MaxExisting } } :
        WellFormed(nodes) }

MakeEnv(platform, ov, home, exe, cwd, dev, dbg) ==
    [platform |-> platform, ELIZA_PROJECT_PATH |-> ov, USERPROFILE |-> home,
     current_exe |-> exe, current_dir |-> cwd, TAURI_DEV |-> dev,
     debug_assertions |-> dbg]

LocateEnv(pl, ov, home, exe, cwd) ==
    MakeEnv(pl, IF ov THEN Some(OverridePath(pl)) ELSE None,
            IF home THEN Some(HomeDir(pl)) ELSE None,
            exe, IF cwd THEN Some(CwdDeep(pl)) ELSE None, FALSE, FALSE)

\* Environments of the locator runs.
LocateEnvs ==
    { LocateEnv("windows", TRUE, TRUE, Some(ExeShallow("windows")), TRUE),
      LocateEnv("windows", FALSE, TRUE, Some(ExeDeep("windows")), TRUE),
      LocateEnv("windows", FALSE, FALSE, Some(ExeShallow("windows")), TRUE),
      LocateEnv("windows", TRUE, FALSE, None, FALSE),
      LocateEnv("unix", TRUE, FALSE, Some(ExeDeep("unix")), FALSE),
      LocateEnv("unix", FALSE, TRUE, None, TRUE),
      LocateEnv("unix", TRUE, TRUE, None, FALSE),
      LocateEnv("unix", FALSE, FALSE, Some(ExeShallow("unix")), FALSE),
      \* ELIZA_PROJECT_PATH written with ".."
      MakeEnv("windows", Some(OverrideDotDot("windows")), None, None, None,
              FALSE, FALSE),
      MakeEnv("unix", Some(OverrideDotDot("unix")), None, None, None,
              FALSE, FALSE),
      \* ELIZA_PROJECT_PATH set to the empty string
      MakeEnv("unix", Some(<<>>), None, Some(ExeShallow("unix")),
              Some(CwdDeep("unix")), FALSE, FALSE) }

\* Symlinks of the locator runs: none; the override path links elsewhere;
\* the directory above it links elsewhere; in the unix run without an
\* executable path,
\* the override path links elsewhere through a chain of as many symlinks as
\* one call follows, or of one more; and for the override written with "..",
\* a symlink that it walks three times.
LinkChoices(e) ==
    LET pl == e.platform
    IN  IF e.ELIZA_PROJECT_PATH = Some(OverridePath(pl))
        THEN { NoLinks,
               Chain(pl, OverridePath(pl), LinkTarget(pl), 1),
               (Parent(OverridePath(pl))[1] :> Parent(LinkTarget(pl))[1]) }
             \cup
             IF pl = "unix" /\ ~IsSome(e.current_exe)
             THEN { Chain(pl, OverridePath(pl), LinkTarget(pl), MaxSymlinks),
                    Chain(pl, OverridePath(pl), LinkTarget(pl),
                          MaxSymlinks + 1) }
             ELSE {}
        ELSE IF e.ELIZA_PROJECT_PATH = Some(OverrideDotDot(pl))
        THEN { NoLinks, (OverridePath(pl) :> SiblingTarget(pl)) }
        ELSE { NoLinks }

\* Environments and snapshots of the supervisor runs.
SupervisorEnvs ==
    { MakeEnv("windows", None, Some(HomeDir("windows")),
              Some(ExeDeep("windows")), Some(CwdDeep("windows")), FALSE, FALSE),
      MakeEnv("unix", Some(OverridePath("unix")), None,
              Some(ExeShallow("unix")), Some(CwdDeep("unix")), TRUE, FALSE) }

SupervisorSnapshots(platform) ==
    { [links |-> NoLinks, nodes |-> [p \in {} |-> ProjectNode]],
      [links |-> NoLinks,
       nodes |-> [p \in {OverridePath(platform),
                         Nested(Deep(platform, "d", ExeLevels))} |-> ProjectNode]] }

(***************************************************************************)
(* Specifications.                                                         *)
(***************************************************************************)
Idle ==
    /\ host = "start"
    /\ handle = 0
    /\ poisoned = FALSE
    /\ procs = <<>>
    /\ probed0 = None
    /\ located = NotLocated
    /\ command = NoCommand
    /\ spawned = "none"
    /\ closeHandler = FALSE
    /\ closes = 0
    /\ shutdowns = 0
    /\ shut = NotShuttingDown
    /\ log = <<>>

\* The shell from process start.
Init ==
    /\ env \in SupervisorEnvs
    /\ fs \in SupervisorSnapshots(env.platform)
    /\ waiter = WaiterIdle
    /\ Idle

Next ==
    \/ Setup
    \/ SetupRegister
    \/ BuildFail
    \/ CloseRequested
    \/ ExitEvent
    \/ ShutdownLock
    \/ ShutdownResult
    \/ ProcessExit
    \/ WaitCheck
    \/ WaitSleep
    \/ WaitGiveUp
    \/ ReadinessLog

Spec == Init /\ [][Next]_vars

\* find_project_directory on every environment and snapshot of the bounds.
InitLocate ==
    /\ env \in LocateEnvs
    /\ \E links \in LinkChoices(env), nodes \in Snapshots(env) :
         fs = [links |-> links, nodes |-> nodes]
    /\ waiter = WaiterIdle
    /\ Idle

NextLocate == Locate

SpecLocate == InitLocate /\ [][NextLocate]_vars

\* wait_for_server(n) for every n of the bounds and every probe outcome.
InitWait ==
    /\ env = LocateEnv("windows", FALSE, FALSE, None, FALSE)
    /\ fs = [links |-> NoLinks, nodes |-> [p \in {} |-> ProjectNode]]
    /\ \E n \in 0..MaxRetries : waiter = WaiterStarted(n)
    /\ Idle

NextWait ==
    \/ WaitCheck
    \/ WaitSleep
    \/ WaitGiveUp
    \/ ReadinessLog

SpecWait == InitWait /\ [][NextWait]_vars

\* The shell with the scheduling the operating system gives the readiness
\* thread: while the process lives, a thread that can step eventually does.
SpecFair ==
    /\ Init
    /\ [][Next]_vars
    /\ WF_vars(WaitCheck)
    /\ WF_vars(WaitSleep)
    /\ WF_vars(WaitGiveUp)
    /\ WF_vars(ReadinessLog)

\* A thread panics while it holds the guard: the mutex is poisoned, and
\* every later lock() returns Err.
PoisonMutex ==
    /\ ~poisoned
    /\ host \in {"start", "running"}
    /\ shut.pc # "killed"
    /\ poisoned' = TRUE
    /\ UNCHANGED <<env, fs, host, handle, procs, probed0, located, command,
                   spawned, closeHandler, closes, shutdowns, shut, waiter, log>>

NextPoison ==
    \/ Next
    \/ PoisonMutex

\* The shell with a mutex that may be found poisoned: the runs that take the
\* Err arms of SERVER_PROCESS.lock().
SpecPoison == Init /\ [][NextPoison]_vars

(***************************************************************************)
(* Properties.                                                             *)
(***************************************************************************)
Last(q) == q[Len(q)]

Count(q, x) == Cardinality({k \in 1..Len(q) : q[k] = x})

\* A step in which a call of shutdown_server returns.
ShutdownReturns == shut.pc # "idle" /\ shut'.pc = "idle"

\* A step in which shutdown_server calls kill().
KillCalled == shut.pc = "banner" /\ shut'.pc = "killed"

KillLogged == \E i \in DOMAIN log : log[i] \in {"shut_down_ok", "kill_failed"}

\* C1: if is_server_running() returned true when setup ran, setup spawned
\* nothing: no child exists, the project search and the command resolution
\* were not run, no readiness thread was started, and the handle is absent.
C1_NoSpawnWhenReachable ==
    probed0 = Some(TRUE) =>
        /\ procs = <<>>
        /\ spawned = "none"
        /\ handle = 0
        /\ ~located.ran
        /\ command = NoCommand
        /\ waiter = WaiterIdle

C1_Witness == probed0 = Some(TRUE) /\ host = "running" /\ handle = 0

\* C2: once the final Exit event has been handled, every child that setup
\* spawned has had kill() called on it.
C2_KilledByExit ==
    host \in {"exit_handled", "terminated"} =>
        \A k \in DOMAIN procs : procs[k].kills >= 1

C2_Witness ==
    /\ host = "exit_handled"
    /\ closes = 0
    /\ Len(procs) = 1
    /\ procs[1].kills = 1

\* C3: every call of shutdown_server returns with the handle absent and
\* without a lock failure; a call that follows an earlier one calls kill()
\* on nothing, so no child ever gets more than one kill() and at most one
\* kill() result is ever logged, also when one call comes from
\* CloseRequested and one from Exit.
C3_ShutdownIdempotent ==
    /\ [][ ShutdownReturns =>
             /\ handle' = 0
             /\ Last(log') # "shutdown_lock_failed" ]_vars
    /\ [][ (shut.pc # "idle" /\ shutdowns >= 2) =>
             /\ procs' = procs
             /\ ~KillCalled
             /\ handle = 0 /\ handle' = 0 ]_vars
    /\ [](\A k \in DOMAIN procs : procs[k].kills <= 1)
    /\ [](Count(log, "shut_down_ok") + Count(log, "kill_failed") <= 1)

C3_Witness ==
    /\ shutdowns = 2
    /\ shut = NotShuttingDown
    /\ closes = 1
    /\ host = "exit_handled"
    /\ Len(procs) = 1
    /\ procs[1].kills = 1

Before(a, b) ==
    \E i, j \in DOMAIN log : i < j /\ log[i] = a /\ log[j] = b

\* C4: a shutdown that finds the spawned child stored calls kill() on it
\* and returns with the handle cleared; after a successful spawn an absent
\* handle stays absent under every step of the readiness thread and of the
\* host.
C4_ClearedHandleStaysAbsent ==
    [][ /\ (spawned = "ok" /\ handle # 0 /\ shut.pc = "banner"
              /\ shut' # shut) =>
              (KillCalled /\ procs'[handle].kills = procs[handle].kills + 1)
        /\ (spawned = "ok" /\ handle # 0 /\ ShutdownReturns) =>
              (handle' = 0 /\ procs'[handle].kills >= 1)
        /\ (spawned = "ok" /\ handle = 0) => handle' = 0 ]_vars

C4_Witness ==
    /\ spawned = "ok"
    /\ handle = 0
    /\ procs[1].kills = 1
    /\ waiter.pc = "done"
    /\ waiter.result = Some(FALSE)
    /\ Before("shutting_down", "not_ready_warning")

\* C5: wait_for_server(n) probes at most n times; only the last probe made
\* can have succeeded, and then it has returned true at once; it returns
\* false only after n failed probes (none when n = 0).
C5_WaitChecks ==
    LET n == waiter.max_retries
        pr == waiter.probes
    IN  /\ Len(pr) <= n
        /\ \A k \in 1..(Len(pr) - 1) : pr[k] = FALSE
        /\ (Len(pr) >= 1 /\ pr[Len(pr)]) => waiter.result = Some(TRUE)
        /\ waiter.result = Some(TRUE) => (Len(pr) >= 1 /\ pr[Len(pr)])
        /\ waiter.result = Some(FALSE) =>
              (Len(pr) = n /\ \A k \in 1..n : pr[k] = FALSE)

C5_Witness ==
    /\ waiter.result = Some(TRUE)
    /\ Len(waiter.probes) > 1
    /\ Len(waiter.probes) < waiter.max_retries

RECURSIVE SleepBound(_)
\* sum(min(2^i, 8) for i in 0..n-1)
SleepBound(n) == IF n = 0 THEN 0 ELSE SleepBound(n - 1) + Min(2^(n - 1), 8)

RECURSIVE SumSeq(_)
SumSeq(q) == IF q = <<>> THEN 0 ELSE Head(q) + SumSeq(Tail(q))

\* C6: the sleep after the failed probe with index i lasts min(2^i, 8)
\* seconds, and the time wait_for_server(n) has slept never exceeds
\* sum(min(2^i, 8) for i in 0..n-1).
C6_Backoff ==
    /\ \A k \in DOMAIN waiter.delays : waiter.delays[k] = Min(2^(k - 1), 8)
    /\ waiter.slept = SumSeq(waiter.delays)
    /\ waiter.slept <= SleepBound(waiter.max_retries)

C6_Witness ==
    /\ waiter.result = Some(FALSE)
    /\ Len(waiter.delays) >= 6
    /\ waiter.delays[6] = 8
    /\ waiter.slept = SleepBound(waiter.max_retries)

\* The directory and its ancestors, nearest first, at most n of them.
AncestorsUpTo(dir, n) ==
    [k \in 1..Min(n, Len(dir)) |-> SubSeq(dir, 1, Len(dir) - k + 1)]

\* The candidates of find_project_directory in priority order.
PriorityCandidates(e) ==
    LET ov == IF IsSome(e.ELIZA_PROJECT_PATH) THEN e.ELIZA_PROJECT_PATH ELSE <<>>
        home == IF IsSome(e.USERPROFILE)
                THEN [k \in 1..6 |-> e.USERPROFILE[1] \o
                        << <<"Civ", "eliza", "trading-brain">>,
                           <<"Documents", "Civ", "eliza", "trading-brain">>,
                           <<"Desktop", "Civ", "eliza", "trading-brain">>,
                           <<"Projects", "Civ", "eliza", "trading-brain">>,
                           <<"eliza", "trading-brain">>,
                           <<"Civ", "trading-brain">> >>[k]]
                ELSE <<>>
        exeDirs == IF IsSome(e.current_exe) /\ Len(e.current_exe[1]) >= 2
                   THEN AncestorsUpTo(SubSeq(e.current_exe[1], 1,
                                             Len(e.current_exe[1]) - 1), ExeLevels)
                   ELSE <<>>
        exe == [k \in 1..(2 * Len(exeDirs)) |->
                  IF k % 2 = 1
                  THEN exeDirs[(k + 1) \div 2] \o <<"eliza", "trading-brain">>
                  ELSE exeDirs[k \div 2] \o <<"trading-brain">>]
        cwdDirs == IF IsSome(e.current_dir)
                   THEN AncestorsUpTo(e.current_dir[1], CwdLevels) ELSE <<>>
        cwd == [k \in 1..Len(cwdDirs) |-> cwdDirs[k] \o <<"eliza", "trading-brain">>]
    IN  ov \o home \o exe \o cwd \o fallback_paths(e.platform)

Passes(e, f, p) ==
    LET c == Canonicalize(e, f, p)
    IN  IsSome(c) /\ validate_project_directory(e, f, c[1])

\* The positions of the candidates of c that pass.
Passing(e, f, c) == {k \in DOMAIN c : Passes(e, f, c[k])}

Lowest(S) == CHOOSE k \in S : \A j \in S : k <= j

\* C7: find_project_directory returns the canonical path of the first
\* candidate, in priority order, that canonicalizes and passes
\* validate_project_directory; None exactly when no candidate passes; and
\* never a path that fails validate_project_directory.
C7_FirstValidCandidate ==
    located.ran =>
        LET c == PriorityCandidates(env)
            ok == Passing(env, fs, c)
        IN  IF ok = {} THEN located.dir = None
            ELSE /\ located.dir = Canonicalize(env, fs, c[Lowest(ok)])
                 /\ validate_project_directory(env, fs, located.dir[1])

C7_Witness ==
    /\ located.ran
    /\ IsSome(located.dir)
    /\ LET c == PriorityCandidates(env)
           ok == Passing(env, fs, c)
       IN  /\ ok # {}
           /\ \E k \in 1..(Lowest(ok) - 1) : IsSome(Canonicalize(env, fs, c[k]))

\* C8: when ELIZA_PROJECT_PATH names a path that canonicalizes and passes
\* validate_project_directory, the result is that canonical path and the
\* override is the only candidate that was canonicalized.
C8_OverrideOnly ==
    (located.ran /\ IsSome(env.ELIZA_PROJECT_PATH)
       /\ Passes(env, fs, env.ELIZA_PROJECT_PATH[1])) =>
        /\ located.dir = Canonicalize(env, fs, env.ELIZA_PROJECT_PATH[1])
        /\ located.seen = <<env.ELIZA_PROJECT_PATH[1]>>

C8_Witness ==
    /\ located.ran
    /\ IsSome(env.ELIZA_PROJECT_PATH)
    /\ Passes(env, fs, env.ELIZA_PROJECT_PATH[1])
    /\ located.dir # env.ELIZA_PROJECT_PATH
    /\ Cardinality(Passing(env, fs, PriorityCandidates(env))) >= 2

\* C9: when cmd.spawn() fails, no handle is stored, no child exists, no
\* readiness thread is started, the setup closure goes on to its end and the
\* host runs on, and no shutdown calls kill().
C9_SpawnFailureLeavesIdle ==
    spawned = "err" =>
        /\ handle = 0
        /\ procs = <<>>
        /\ waiter = WaiterIdle
        /\ host \in {"setup", "running", "exit_handled", "terminated"}
        /\ host = "setup" => ENABLED SetupRegister
        /\ shut.pc # "killed"
        /\ ~KillLogged

C9_Witness == spawned = "err" /\ shutdowns = 2 /\ host = "terminated"

\* C10: a present handle is the child this setup spawned, and when a server
\* was reachable at setup no shutdown calls kill() on anything.
C10_OwnsOnlyOwnChild ==
    /\ handle # 0 => (spawned = "ok" /\ handle \in DOMAIN procs)
    /\ probed0 = Some(TRUE) => (~KillLogged /\ \A k \in DOMAIN procs : procs[k].kills = 0)

C10_Witness ==
    /\ probed0 = Some(TRUE)
    /\ closes >= 1
    /\ host = "exit_handled"
    /\ shutdowns = closes + 1

\* C11: a shutdown_server call that finds a handle calls kill() on that
\* child once, logs the success or the failure of the call, and returns
\* with the handle absent in both cases.
C11_ClearedWhateverKillReturns ==
    /\ [][ (shut.pc = "banner" /\ handle # 0 /\ shut' # shut) =>
              /\ KillCalled
              /\ procs'[handle].kills = procs[handle].kills + 1
              /\ handle' = handle ]_vars
    /\ [][ (shut.pc = "killed" /\ shut' # shut) =>
              /\ ShutdownReturns
              /\ handle' = 0
              /\ procs' = procs
              /\ log' = Append(log, IF shut.killOk THEN "shut_down_ok"
                                    ELSE "kill_failed") ]_vars
    /\ []((shut.pc = "idle" /\ Count(log, "kill_failed") >= 1) => handle = 0)

C11_Witness ==
    /\ log # <<>>
    /\ shut = NotShuttingDown
    /\ Last(log) = "kill_failed"
    /\ handle = 0
    /\ host = "running"

\* C12: when SERVER_PROCESS.lock() fails, shutdown_server calls kill() on
\* nothing, leaves the handle as it was and returns, and setup after a
\* successful spawn stores no handle and starts no readiness thread; both
\* only log the failure and the host goes on.
C12_LockFailureSkips ==
    /\ [][ (shut.pc = "banner" /\ poisoned /\ shut' # shut) =>
              /\ ShutdownReturns
              /\ handle' = handle
              /\ procs' = procs
              /\ log' = Append(log, "shutdown_lock_failed")
              /\ host' \in {"running", "exit_handled"} ]_vars
    /\ [][ (host = "start" /\ spawned' = "ok" /\ poisoned) =>
              /\ handle' = 0
              /\ waiter' = WaiterIdle
              /\ Len(procs') = 1
              /\ Last(log') = "setup_lock_failed"
              /\ host' = "setup" ]_vars
    /\ [](host = "setup" => ENABLED SetupRegister)
    /\ []((poisoned /\ host = "running" /\ shut.pc = "idle") =>
             ENABLED ExitEvent)

C12_Witness ==
    /\ poisoned
    /\ handle # 0
    /\ procs[handle].kills = 0
    /\ Last(log) = "shutdown_lock_failed"
    /\ host = "exit_handled"

\* C13: when no server is reachable, setup goes on whatever the locator
\* returned: the command is resolved and the spawn is attempted, and the
\* child's working directory is the found project directory, unset exactly
\* when find_project_directory returned None.
C13_NoDirectoryStillSpawns ==
    probed0 = Some(FALSE) =>
        /\ located.ran
        /\ located.dir = find_project_directory(env, fs).dir
        /\ command # NoCommand
        /\ spawned \in {"ok", "err"}
        /\ (spawned = "ok" =>
              /\ Len(procs) = 1
              /\ procs[1].cwd = located.dir
              /\ IsSome(procs[1].cwd) <=> IsSome(located.dir)
              /\ procs[1].name = command.name)
        /\ (spawned = "err" => procs = <<>>)

C13_Witness ==
    /\ probed0 = Some(FALSE)
    /\ located.ran
    /\ located.dir = None
    /\ spawned = "ok"
    /\ procs[1].cwd = None
    /\ command # NoCommand

\* C14 as stated: the bunx form exactly when the platform is windows and
\* the bunx trial could be started, whatever its exit status; the direct
\* form in every other case; and, on every platform, the elizaos trial made
\* only after a bunx trial that could not be started.
C14_Original ==
    command # NoCommand =>
        LET t == command.trials
            wrapperRan == /\ env.platform = "windows"
                          /\ t[1].tool = "bunx"
                          /\ t[1].outcome \in {"exit_zero", "exit_nonzero"}
        IN  /\ IF wrapperRan
               THEN /\ command.name = "bunx"
                    /\ command.args = <<"--bun", "elizaos">>
               ELSE /\ command.name = "elizaos"
                    /\ command.args = <<>>
            /\ \A k \in 1..Len(t) :
                  t[k].tool = "elizaos" =>
                     /\ k >= 2
                     /\ t[k - 1].tool = "bunx"
                     /\ t[k - 1].outcome = "not_started"

\* C14 as amended: find_elizaos_command returns ("bunx", ["--bun", "elizaos"])
\* exactly when the platform is windows and the bunx trial could be started,
\* with any exit status; otherwise it returns ("elizaos", []), also when no
\* trial could be started and on the other platforms.  On windows the
\* elizaos trial is made only as the second trial, after a bunx trial that
\* could not be started; on the other platforms the elizaos trial is the
\* only trial, made with no bunx trial before it.
C14_CommandForm ==
    command # NoCommand =>
        LET t == command.trials
            wrapperRan == /\ env.platform = "windows"
                          /\ t[1].tool = "bunx"
                          /\ t[1].outcome \in {"exit_zero", "exit_nonzero"}
        IN  /\ Len(t) \in 1..2
            /\ \A k \in 1..Len(t) : t[k].outcome \in TrialOutcomes
            /\ IF wrapperRan
               THEN /\ command.name = "bunx"
                    /\ command.args = <<"--bun", "elizaos">>
               ELSE /\ command.name = "elizaos"
                    /\ command.args = <<>>
            /\ env.platform = "windows" =>
                 /\ t[1].tool = "bunx"
                 /\ \A k \in 1..Len(t) :
                       t[k].tool = "elizaos" =>
                          k = 2 /\ t[1].outcome = "not_started"
                 /\ Len(t) = 2 <=> t[1].outcome = "not_started"
            /\ env.platform # "windows" =>
                 Len(t) = 1 /\ t[1].tool = "elizaos"

C14_Witness ==
    /\ env.platform = "windows"
    /\ command.name = "bunx"
    /\ command.trials = <<Trial("bunx", "exit_nonzero")>>
    /\ spawned \in {"ok", "err"}

OutcomesLogged == Count(log, "server_ready") + Count(log, "not_ready_warning")

\* C15 as stated: a started readiness task always gets to its outcome line,
\* so no run ends with the task started and no outcome logged.
C15_Original ==
    (host = "terminated" /\ waiter.pc # "idle") =>
        /\ waiter.pc = "done"
        /\ OutcomesLogged = 1

\* C15 as amended: the readiness task has no cancellation of its own.  Once
\* started, under fair scheduling it logs exactly one outcome (ready, or the
\* warning after 10 failed checks), also when shutdown_server has cleared
\* the handle meanwhile, unless the host process ends first; the end of the
\* process is the only thing that stops it.  Its steps only probe, sleep and
\* log.
C15_RunsToOutcomeWhileHostLives ==
    /\ (waiter.pc # "idle") ~> (waiter.pc = "done" \/ host = "terminated")
    /\ [](OutcomesLogged <= 1)
    /\ [](waiter.pc = "done" =>
            /\ OutcomesLogged = 1
            /\ waiter.result = Some(TRUE) =>
                 /\ Count(log, "server_ready") = 1
                 /\ Last(waiter.probes) = TRUE
            /\ waiter.result # Some(TRUE) =>
                 /\ Count(log, "not_ready_warning") = 1
                 /\ Len(waiter.probes) = 10
                 /\ \A k \in 1..10 : waiter.probes[k] = FALSE)
    /\ [][ (waiter.pc # "idle" /\ waiter' # waiter) =>
             /\ UNCHANGED <<env, fs, host, handle, poisoned, procs, probed0,
                            located, command, spawned, closeHandler, closes,
                            shutdowns, shut>>
             /\ \/ log' = log
                \/ waiter'.pc = "done" /\ Len(log') = Len(log) + 1
             /\ host # "terminated" ]_vars

C15_Witness ==
    /\ waiter.pc = "done"
    /\ waiter.result = Some(FALSE)
    /\ handle = 0
    /\ shutdowns >= 1
    /\ Before("shutting_down", "not_ready_warning")

\* C16: the supervisor spawns at most once in the life of the host.  Once
\* the spawn has been attempted, its result stands and no step adds a child:
\* not the readiness timeout, not a failed spawn, not a shutdown.
C16_AtMostOneSpawn ==
    /\ [](Len(procs) <= 1)
    /\ [](Len(procs) = 1 <=> spawned = "ok")
    /\ [][ spawned # "none" =>
             /\ spawned' = spawned
             /\ command' = command
             /\ Len(procs') = Len(procs)
             /\ \A k \in 1..Len(procs) :
                   [procs'[k] EXCEPT !.kills = 0] = [procs[k] EXCEPT !.kills = 0]
           ]_vars

C16_Witness ==
    /\ spawned = "ok"
    /\ Len(procs) = 1
    /\ waiter.pc = "done"
    /\ waiter.result = Some(FALSE)
    /\ shutdowns >= 1
    /\ procs[1].kills >= 1
    /\ host = "terminated"

\* C17: wait_for_server sleeps only between checks: every sleep is followed
\* by another check, so a call that has returned made one sleep fewer than
\* checks, and a call wait_for_server(n) whose n checks all failed made n-1
\* sleeps.
C17_SleepsOnlyBetweenChecks ==
    waiter.pc \in {"log", "done"} =>
        /\ waiter.probes # <<>> =>
             Len(waiter.delays) = Len(waiter.probes) - 1
        /\ (waiter.result = Some(FALSE) /\ waiter.max_retries >= 1) =>
             Len(waiter.delays) = waiter.max_retries - 1

IsPrefix(a, b) == Len(a) <= Len(b) /\ a = SubSeq(b, 1, Len(a))

\* The directory k levels above dir (k = 0: dir itself).
LevelAbove(dir, k) == SubSeq(dir, 1, Len(dir) - k)

\* The candidates of a walk of at most max levels up from dir, ending at
\* the root: the nested path at each level, followed by the sibling path
\* when the walk checks both.
WalkCandidates(dir, max, both) ==
    LET n == Min(max, Len(dir))
        nested(k) == LevelAbove(dir, k) \o <<"eliza", "trading-brain">>
        sibling(k) == LevelAbove(dir, k) \o <<"trading-brain">>
    IN  IF both
        THEN [j \in 1..(2 * n) |->
                IF j % 2 = 1 THEN nested((j - 1) \div 2)
                ELSE sibling((j - 1) \div 2)]
        ELSE [j \in 1..n |-> nested(j - 1)]

ExeDir(e) ==
    IF IsSome(e.current_exe) /\ Len(e.current_exe[1]) >= 2
    THEN Some(LevelAbove(e.current_exe[1], 1)) ELSE None

ExpectedExeWalk(e) ==
    IF IsSome(ExeDir(e)) THEN WalkCandidates(ExeDir(e)[1], 15, TRUE) ELSE <<>>

ExpectedCwdWalk(e) ==
    IF IsSome(e.current_dir)
    THEN WalkCandidates(e.current_dir[1], 10, FALSE) ELSE <<>>

ExpectedBeforeWalks(e) ==
    (IF IsSome(e.ELIZA_PROJECT_PATH) THEN e.ELIZA_PROJECT_PATH ELSE <<>>)
    \o (IF IsSome(e.USERPROFILE) THEN common_locations(e.USERPROFILE[1])
        ELSE <<>>)

\* A valid nested project two levels above the executable's directory, and
\* no valid candidate before it: not the override, not a conventional
\* location under the home directory, not a candidate of the two levels
\* below.
TwoLevelsUp(e, f) ==
    /\ IsSome(ExeDir(e))
    /\ Len(ExeDir(e)[1]) >= 3
    /\ Passes(e, f, ExpectedExeWalk(e)[5])
    /\ \A k \in 1..4 : ~Passes(e, f, ExpectedExeWalk(e)[k])
    /\ \A k \in DOMAIN ExpectedBeforeWalks(e) :
          ~Passes(e, f, ExpectedBeforeWalks(e)[k])

\* C18: the walk up from the executable's directory examines at most 15
\* levels, that directory first, at each level the nested
\* eliza/trading-brain path before the trading-brain sibling path, and ends
\* at the root; the walk up from the working directory examines at most 10
\* levels and only the nested path.  The candidates examined are a prefix of
\* that order, all of it when nothing is found, and a valid nested project
\* two levels above the executable's directory is returned when no earlier
\* candidate is valid.
C18_AncestorWalks ==
    located.ran =>
        LET before == ExpectedBeforeWalks(env)
            all == before \o ExpectedExeWalk(env) \o ExpectedCwdWalk(env)
                     \o fallback_paths(env.platform)
        IN  /\ IsPrefix(located.seen, all)
            /\ located.dir = None => located.seen = all
            /\ IsSome(located.dir) =>
                 /\ located.seen # <<>>
                 /\ located.dir = Canonicalize(env, fs, Last(located.seen))
            /\ TwoLevelsUp(env, fs) =>
                 /\ located.dir = Canonicalize(env, fs, ExpectedExeWalk(env)[5])
                 /\ located.seen = SubSeq(all, 1, Len(before) + 5)

C18_Witness ==
    /\ located.ran
    /\ TwoLevelsUp(env, fs)
    /\ ~IsSome(env.ELIZA_PROJECT_PATH)
    /\ IsSome(env.USERPROFILE)
    /\ \E k \in DOMAIN ExpectedBeforeWalks(env) :
          IsSome(Canonicalize(env, fs, ExpectedBeforeWalks(env)[k]))
    /\ Len(located.seen) = 11
    /\ Last(located.seen) =
         LevelAbove(ExeDir(env)[1], 2) \o <<"eliza", "trading-brain">>
    /\ IsSome(located.dir)

WaiterWorking == waiter.pc \in {"check", "sleep", "log"}

\* C19: no step of the readiness thread locks SERVER_PROCESS or touches the
\* handle, so shutdown_server never waits for it: whenever the thread is
\* probing, sleeping or about to log, a handler can enter shutdown_server,
\* and every step of the call (the lock, the kill(), the clearing of the
\* handle) can be taken at once and is taken without the thread moving.
C19_ShutdownNeverWaits ==
    /\ [][ (WaiterWorking /\ waiter' # waiter) =>
              UNCHANGED <<handle, poisoned, procs, shutdowns, shut>> ]_vars
    /\ []((host = "running" /\ WaiterWorking /\ shut.pc = "idle") =>
             ENABLED ExitEvent)
    /\ []((host = "running" /\ WaiterWorking /\ shut.pc = "idle"
             /\ closeHandler /\ closes < MaxCloseRequests) =>
             ENABLED CloseRequested)
    /\ [](shut.pc = "banner" => ENABLED ShutdownLock)
    /\ [](shut.pc = "killed" => ENABLED ShutdownResult)
    /\ [][ shut' # shut => waiter' = waiter ]_vars
    /\ [][ (WaiterWorking /\ ShutdownReturns) =>
              /\ handle' = 0
              /\ Last(log') # "shutdown_lock_failed" ]_vars

C19_Witness ==
    /\ waiter.pc = "sleep"
    /\ waiter.probes = <<FALSE>>
    /\ shut = NotShuttingDown
    /\ host = "running"
    /\ shutdowns = 1
    /\ handle = 0
    /\ procs[1].kills = 1

\* C20: the handlers that call shutdown_server act only once setup has made
\* its spawn and stored the handle, so a handle is stored only in the setup
\* step and with no shutdown before it, no handle is stored after a shutdown,
\* and the readiness thread is started only with the handle stored.
C20_NoShutdownBeforeStore ==
    /\ []((shutdowns >= 1 \/ shut.pc # "idle") => host \notin {"start", "setup"})
    /\ [][ shutdowns' # shutdowns =>
              (host = "running" /\ probed0 # None) ]_vars
    /\ [][ (handle' # handle /\ handle' # 0) =>
              /\ shutdowns = 0 /\ shutdowns' = 0
              /\ host = "start"
              /\ spawned' = "ok" ]_vars
    /\ [][ shutdowns >= 1 => handle' \in {handle, 0} ]_vars
    /\ [][ (waiter.pc = "idle" /\ waiter'.pc # "idle") =>
              (handle' # 0 /\ handle' = Len(procs') /\ shutdowns' = 0) ]_vars
    /\ [](waiter.pc # "idle" => (spawned = "ok" /\ (handle # 0 \/ shutdowns >= 1)))

C20_Witness ==
    /\ spawned = "ok"
    /\ shutdowns >= 2
    /\ handle = 0
    /\ WaiterWorking
    /\ Before("process_started", "shutting_down")

====
